---- MODULE Spec2Model ----
(***************************************************************************)
(* Model of the TourSafe ML service:                                       *)
(*   src/ml/app.py              the Flask service (module-level load or    *)
(*                              train of the two models, two handlers)     *)
(*   src/models/safety_score.py the training script / library module       *)
(*                              (module-level train and save, two          *)
(*                              functions that reload the saved models)    *)
(* A process runs one of the two modules.  Its module-level code is split  *)
(* into its I/O steps; a request handler is one atomic step.               *)
(***************************************************************************)
EXTENDS Integers, FiniteSets, Sequences, TLC

VARIABLES
    pc,                \* per process: position in the module-level code
    kind,              \* per process: "app" (ml/app.py) or "lib" (models/safety_score.py)
    regressor,         \* per process: the module-level name `regressor`
    anomaly_detector,  \* per process: the module-level name `anomaly_detector`
    files,             \* models/safety_regressor.pkl and models/anomaly_detector.pkl
    cycles,            \* number of training cycles (fit of both models) so far
    runs,              \* number of process starts so far
    atStart,           \* per process: the two files as they were when the run started
    trained,           \* per process: training cycles of this run
    wrote,             \* per process: writes of this run to each model file
    ioFailed,          \* per process: a persistence failure other than "file absent" happened in this run
    inits,             \* per process: completed initializations of this run
    last               \* the last request and its response

vars == <<pc, kind, regressor, anomaly_detector, files, cycles, runs,
          atStart, trained, wrote, ioFailed, inits, last>>

-----------------------------------------------------------------------------
(* Bounds *)

MaxTrain == 3      \* training cycles explored
MaxRuns == 3       \* process starts explored
Scale == 10        \* scores are counted in 1/Scale units (79.9 is 799)

(* Program constants *)

GreenMin == 80
YellowMin == 50
FailOpenScore == 85
RiskCutTenths == 8     \* 0.8, with risk counted in tenths
Outlier == -1

SoloProcs == {"w1"}
ConcProcs == {"w1", "w2"}
Procs == DOMAIN pc

-----------------------------------------------------------------------------
(* Model artifacts and their pickled copies *)

Unbound == [bound |-> FALSE, id |-> 0]
Fit(n) == [bound |-> TRUE, id |-> n]

Absent == [st |-> "absent", id |-> 0]
Corrupt == [st |-> "corrupt", id |-> 0]
\* faulty variant: the pickle is written to another path, the model file stays absent
DumpMut(model) == Absent
\* joblib.dump: the pickled copy of a model
Dump(model) == [st |-> "ok", id |-> model.id]
Load(file) == [bound |-> TRUE, id |-> file.id]

\* what load() of a file can do: FileNotFoundError when absent, another
\* error when unreadable, and on a good file the model or a read error
LoadOutcomes(file) ==
    IF file.st = "absent" THEN {"FileNotFoundError"}
    ELSE IF file.st = "corrupt" THEN {"OtherError"}
    ELSE {"ok", "OtherError"}

\* a failed dump leaves the file as it was (open failed) or truncated
DumpFailures(file) == {file, Corrupt}

\* faulty variant: `except Exception:` around the loads
CaughtAtStartupMut(exc) == exc # "ok"
\* `except FileNotFoundError:` of the module-level try
CaughtAtStartup(exc) == exc = "FileNotFoundError"

\* faulty variant: the server accepts requests while the module-level code still runs
ReadyMut(p) == pc[p] # "stopped"
\* handlers are reachable only after the module-level code has run:
\* app.run() is the last statement, the functions of the library are
\* reachable once the import has finished
Ready(p) == pc[p] = "serving"

NoExchange == [proc |-> "none", module |-> "none", route |-> "none"]

-----------------------------------------------------------------------------
(* Startup *)

FreshRun(p, k, first) ==
    /\ pc' = [pc EXCEPT ![p] = first]
    /\ kind' = [kind EXCEPT ![p] = k]
    /\ regressor' = [regressor EXCEPT ![p] = Unbound]
    /\ anomaly_detector' = [anomaly_detector EXCEPT ![p] = Unbound]
    /\ atStart' = [atStart EXCEPT ![p] = files]
    /\ trained' = [trained EXCEPT ![p] = 0]
    /\ wrote' = [wrote EXCEPT ![p] = [reg |-> 0, anom |-> 0]]
    /\ ioFailed' = [ioFailed EXCEPT ![p] = FALSE]
    /\ inits' = [inits EXCEPT ![p] = 0]
    /\ last' = IF last.proc = p THEN NoExchange ELSE last
    /\ runs' = runs + 1
    /\ UNCHANGED <<files, cycles>>

\* python ml/app.py: the module-level code starts with the try at line 12
StartApp(p) ==
    /\ pc[p] = "stopped"
    /\ runs < MaxRuns
    /\ FreshRun(p, "app", "load_reg")

\* import of models/safety_score.py: the module-level code trains at once
StartLib(p) ==
    /\ pc[p] = "stopped"
    /\ runs < MaxRuns
    /\ FreshRun(p, "lib", "train")

\* an exception leaves the module-level code: the process cannot serve
Abort(p) == pc' = [pc EXCEPT ![p] = "aborted"]

\* record of a persistence failure other than "file absent"
Failed(p, yes) == ioFailed' = [ioFailed EXCEPT ![p] = @ \/ yes]

\* regressor = load('models/safety_regressor.pkl')
LoadRegressor(p) ==
    /\ pc[p] = "load_reg"
    /\ \E out \in LoadOutcomes(files.reg) :
         /\ Failed(p, out = "OtherError")
         /\ IF out = "ok"
            THEN /\ regressor' = [regressor EXCEPT ![p] = Load(files.reg)]
                 /\ pc' = [pc EXCEPT ![p] = "load_anom"]
            ELSE IF CaughtAtStartup(out)
            THEN /\ pc' = [pc EXCEPT ![p] = "train"]
                 /\ UNCHANGED regressor
            ELSE /\ Abort(p)
                 /\ UNCHANGED regressor
    /\ UNCHANGED <<kind, anomaly_detector, files, cycles, runs, atStart,
                   trained, wrote, inits, last>>

\* anomaly_detector = load('models/anomaly_detector.pkl')
LoadAnomalyDetector(p) ==
    /\ pc[p] = "load_anom"
    /\ \E out \in LoadOutcomes(files.anom) :
         /\ Failed(p, out = "OtherError")
         /\ IF out = "ok"
            THEN /\ anomaly_detector' = [anomaly_detector EXCEPT ![p] = Load(files.anom)]
                 /\ pc' = [pc EXCEPT ![p] = "serving"]
                 /\ inits' = [inits EXCEPT ![p] = @ + 1]
            ELSE IF CaughtAtStartup(out)
            THEN /\ pc' = [pc EXCEPT ![p] = "train"]
                 /\ UNCHANGED <<anomaly_detector, inits>>
            ELSE /\ Abort(p)
                 /\ UNCHANGED <<anomaly_detector, inits>>
    /\ UNCHANGED <<kind, regressor, files, cycles, runs, atStart,
                   trained, wrote, last>>

\* synthetic data, train_test_split, fit of both models on X_train
Train(p) ==
    /\ pc[p] = "train"
    /\ cycles < MaxTrain
    /\ cycles' = cycles + 1
    /\ regressor' = [regressor EXCEPT ![p] = Fit(cycles + 1)]
    /\ anomaly_detector' = [anomaly_detector EXCEPT ![p] = Fit(cycles + 1)]
    /\ trained' = [trained EXCEPT ![p] = @ + 1]
    /\ pc' = [pc EXCEPT ![p] = "makedirs"]
    /\ UNCHANGED <<kind, files, runs, atStart, wrote, ioFailed, inits, last>>

\* os.makedirs('models', exist_ok=True)
MakeDirs(p) ==
    /\ pc[p] = "makedirs"
    /\ \/ /\ pc' = [pc EXCEPT ![p] = "dump_reg"]
          /\ UNCHANGED ioFailed
       \/ /\ Abort(p)
          /\ Failed(p, TRUE)
    /\ UNCHANGED <<kind, regressor, anomaly_detector, files, cycles, runs,
                   atStart, trained, wrote, inits, last>>

\* dump(regressor, 'models/safety_regressor.pkl')
DumpRegressor(p) ==
    /\ pc[p] = "dump_reg"
    /\ \/ /\ files' = [files EXCEPT !.reg = Dump(regressor[p])]
          /\ wrote' = [wrote EXCEPT ![p].reg = @ + 1]
          /\ pc' = [pc EXCEPT ![p] = "dump_anom"]
          /\ UNCHANGED ioFailed
       \/ /\ \E f \in DumpFailures(files.reg) : files' = [files EXCEPT !.reg = f]
          /\ Abort(p)
          /\ Failed(p, TRUE)
          /\ UNCHANGED wrote
    /\ UNCHANGED <<kind, regressor, anomaly_detector, cycles, runs, atStart,
                   trained, inits, last>>

\* dump(anomaly_detector, 'models/anomaly_detector.pkl')
DumpAnomalyDetector(p) ==
    /\ pc[p] = "dump_anom"
    /\ \/ /\ files' = [files EXCEPT !.anom = Dump(anomaly_detector[p])]
          /\ wrote' = [wrote EXCEPT ![p].anom = @ + 1]
          /\ pc' = [pc EXCEPT ![p] = "serving"]
          /\ inits' = [inits EXCEPT ![p] = @ + 1]
          /\ UNCHANGED ioFailed
       \/ /\ \E f \in DumpFailures(files.anom) : files' = [files EXCEPT !.anom = f]
          /\ Abort(p)
          /\ Failed(p, TRUE)
          /\ UNCHANGED <<wrote, inits>>
    /\ UNCHANGED <<kind, regressor, anomaly_detector, cycles, runs, atStart,
                   trained, last>>

\* the process ends (the server is stopped, or startup raised)
Exit(p) ==
    /\ pc[p] \in {"serving", "aborted"}
    /\ pc' = [pc EXCEPT ![p] = "stopped"]
    /\ regressor' = [regressor EXCEPT ![p] = Unbound]
    /\ anomaly_detector' = [anomaly_detector EXCEPT ![p] = Unbound]
    /\ last' = IF last.proc = p THEN NoExchange ELSE last
    /\ UNCHANGED <<kind, files, cycles, runs, atStart, trained, wrote,
                   ioFailed, inits>>

-----------------------------------------------------------------------------
(* Requests: JSON bodies, Python values, jsonify *)

\* values carry their Python type: jsonify and comparisons depend on it
Val(ty, v) == [ty |-> ty, v |-> v]
Missing == Val("missing", 0)         \* the key is not in the object
NotANumber == Val("str", 0)          \* a string such as "fast"
Num(n) == Val("float", n)            \* a JSON number; risk in tenths

RiskValues == {Missing, NotANumber, Num(5), Num(RiskCutTenths), Num(9)}
OtherValues == {Missing, NotANumber, Num(5)}
Keys == {"risk", "speed", "weather", "crowd"}

Object(r, s, w, c) ==
    [shape |-> "object", risk |-> r, speed |-> s, weather |-> w, crowd |-> c]
\* no parsed body at all: request.json raises (wrong content type, bad JSON)
NoBody == [shape |-> "none", risk |-> Missing, speed |-> Missing,
           weather |-> Missing, crowd |-> Missing]
\* a JSON value that is no object: a list, null, a number
NonObject == [shape |-> "nonobject", risk |-> Missing, speed |-> Missing,
              weather |-> Missing, crowd |-> Missing]

Bodies ==
    {NoBody, NonObject} \cup
    {Object(r, s, Num(5), Num(5)) : r \in RiskValues, s \in OtherValues} \cup
    {Object(Num(9), Num(5), Missing, Num(5))}

\* the arrays the library functions are called with (no JSON in between)
FeatureArrays == {b \in Bodies : b.shape = "object" /\ \A k \in Keys : b[k] # Missing}

IsNumeric(val) == val.ty \in {"float", "int", "bool", "np.float64"}
ValidBody(b) == b.shape = "object" /\ \A k \in Keys : IsNumeric(b[k])

\* data = request.json; features = np.array([[data['risk'], data['speed'],
\* data['weather'], data['crowd']]]): the exception raised, or "none"
FeaturesError(b) ==
    IF b.shape = "none" THEN "BadRequest"
    ELSE IF b.shape = "nonobject" THEN "TypeError"
    ELSE IF \E k \in Keys : b[k] = Missing THEN "KeyError"
    ELSE "none"

\* model.predict(features)[0]: the exception raised, or "none"
PredictError(model, b) ==
    IF ~model.bound THEN "NameError"
    ELSE IF \E k \in Keys : ~IsNumeric(b[k]) THEN "ValueError"
    ELSE "none"

\* the scores a regressor can predict, around the two thresholds
Scores == {0, YellowMin * Scale - 1, YellowMin * Scale, GreenMin * Scale - 1,
           GreenMin * Scale, 99 * Scale}
\* IsolationForest.predict labels: -1 outlier, 1 inlier
Labels == {Outlier, 1}

\* faulty variant: `score > 80`
ColorMut(score) ==
    IF score > GreenMin * Scale THEN "green"
    ELSE IF score >= YellowMin * Scale THEN "yellow" ELSE "red"
\* color = 'green' if score >= 80 else 'yellow' if score >= 50 else 'red'
Color(score) ==
    IF score >= GreenMin * Scale THEN "green"
    ELSE IF score >= YellowMin * Scale THEN "yellow" ELSE "red"

\* tip = 'Adventure Ready!' if score >= 80 else 'Proceed with Caution' if
\* score >= 50 else 'Reroute Recommended'
Tip(score) ==
    IF score >= GreenMin * Scale THEN "Adventure Ready!"
    ELSE IF score >= YellowMin * Scale THEN "Proceed with Caution"
    ELSE "Reroute Recommended"

\* float(score)
Float(val) == Val("float", val.v)
\* anomaly == -1 on a numpy integer: a numpy.bool_, not a Python bool
NpEquals(val, n) == Val("np.bool_", val.v = n)
\* data['risk'] > 0.8 on a JSON number: a Python bool
GreaterThan(val, n) == Val("bool", val.v > n)

\* json.dumps with Flask's default handler: str, int, float (and its
\* subclass numpy.float64) and bool are written, a numpy.bool_ is refused
JsonSerializable(val) == val.ty \in {"str", "int", "float", "np.float64", "bool"}
JsonifyError(payload) ==
    IF \E k \in DOMAIN payload : ~JsonSerializable(payload[k]) THEN "TypeError" ELSE "none"

\* what Flask answers when a view raises: 500 Internal Server Error
Unhandled(exc) == [status |-> 500, unhandled |-> TRUE, raised |-> exc,
                   payload |-> [html |-> Val("str", "Internal Server Error")]]
Answer(status, payload) == [status |-> status, unhandled |-> FALSE, raised |-> "none",
                            payload |-> payload]

FirstError(a, b) == IF a # "none" THEN a ELSE b

\* faulty variant: `except KeyError as e:`
CaughtByHandlerMut(exc) == exc = "KeyError"
\* `except Exception as e:` of both handlers
CaughtByHandler(exc) == exc # "none"

\* the fixed payload of the except branch of predict_safety
FailOpen(exc) ==
    [error |-> Val("str", exc), score |-> Val("int", FailOpenScore * Scale),
     color |-> Val("str", "green"), tip |-> Val("str", "Adventure Ready!")]

\* ml/app.py predict_safety, for a body and the score the regressor predicts
PredictSafetyResponse(model, b, score) ==
    LET ok == [score |-> Float(Val("np.float64", score)),
               color |-> Val("str", Color(score)),
               tip |-> Val("str", Tip(score))]
        exc == FirstError(FeaturesError(b),
                 FirstError(PredictError(model, b), JsonifyError(ok)))
    IN  IF exc = "none" THEN Answer(200, ok)
        ELSE IF CaughtByHandler(exc)
        THEN (IF JsonifyError(FailOpen(exc)) = "none"
              THEN Answer(500, FailOpen(exc)) ELSE Unhandled("TypeError"))
        ELSE Unhandled(exc)

\* the except branch of detect_anomaly evaluates data['risk'] > 0.8: the
\* exception that raises, or "none"
FallbackError(b) ==
    IF b.shape = "none" THEN "UnboundLocalError"
    ELSE IF b.shape = "nonobject" THEN "TypeError"
    ELSE IF b.risk = Missing THEN "KeyError"
    ELSE IF ~IsNumeric(b.risk) THEN "TypeError"
    ELSE "none"

\* ml/app.py detect_anomaly, for a body and the label the detector predicts
DetectAnomalyResponse(model, b, label) ==
    LET ok == [anomaly |-> NpEquals(Val("np.int64", label), Outlier)]
        exc == FirstError(FeaturesError(b),
                 FirstError(PredictError(model, b), JsonifyError(ok)))
        fallback == [error |-> Val("str", exc),
                     anomaly |-> GreaterThan(b.risk, RiskCutTenths)]
    IN  IF exc = "none" THEN Answer(200, ok)
        ELSE IF CaughtByHandler(exc)
        THEN (IF FallbackError(b) # "none" THEN Unhandled(FallbackError(b))
              ELSE IF JsonifyError(fallback) # "none" THEN Unhandled("TypeError")
              ELSE Answer(500, fallback))
        ELSE Unhandled(exc)

\* models/safety_score.py predict_safety(features): the dict returned, or
\* the exception raised to the caller (there is no try)
LibPredictSafetyResult(out, model, b, score) ==
    LET exc == FirstError(IF out = "ok" THEN "none" ELSE out, PredictError(model, b))
    IN  IF exc # "none"
        THEN [status |-> 0, unhandled |-> TRUE, raised |-> exc,
              payload |-> [none |-> Val("str", "")]]
        ELSE Answer(0, [score |-> Val("np.float64", score),
                        color |-> Val("str", Color(score)),
                        tip |-> Val("str", Tip(score))])

\* models/safety_score.py detect_anomaly(features)
LibDetectAnomalyResult(out, model, b, label) ==
    LET exc == FirstError(IF out = "ok" THEN "none" ELSE out, PredictError(model, b))
    IN  IF exc # "none"
        THEN [status |-> 0, unhandled |-> TRUE, raised |-> exc,
              payload |-> [none |-> Val("str", "")]]
        ELSE Answer(0, [anomaly |-> NpEquals(Val("np.int64", label), Outlier)])

\* faulty variant: a model is fitted anew for each request
RegressorUsedMut(p) == Fit(cycles + 1)
\* the regressor a request of process p is answered with: the module-level
\* `regressor` in ml/app.py, a fresh joblib.load of the file in the library
RegressorUsed(p) ==
    IF kind[p] = "app" THEN regressor[p]
    ELSE IF files.reg.st = "ok" THEN Load(files.reg) ELSE Unbound

\* likewise for the anomaly detector
DetectorUsed(p) ==
    IF kind[p] = "app" THEN anomaly_detector[p]
    ELSE IF files.anom.st = "ok" THEN Load(files.anom) ELSE Unbound

Exchange(p, route, b, out, used, resp) ==
    [proc |-> p, module |-> kind[p], route |-> route, body |-> b, out |-> out,
     used |-> used, bound |-> regressor[p].bound /\ anomaly_detector[p].bound,
     inits |-> inits[p], resp |-> resp]

Handled(p, x) ==
    /\ last' = x
    /\ UNCHANGED <<files, pc, kind, regressor, anomaly_detector, cycles, runs,
                   atStart, trained, wrote, ioFailed, inits>>

\* POST /predict-safety
PredictSafety(p) ==
    /\ Ready(p)
    /\ kind[p] = "app"
    /\ \E b \in Bodies, score \in Scores :
         Handled(p, Exchange(p, "predict", b, score, RegressorUsed(p),
                             PredictSafetyResponse(RegressorUsed(p), b, score)))

\* POST /detect-anomaly
DetectAnomaly(p) ==
    /\ Ready(p)
    /\ kind[p] = "app"
    /\ \E b \in Bodies, label \in Labels :
         Handled(p, Exchange(p, "detect", b, label, DetectorUsed(p),
                             DetectAnomalyResponse(DetectorUsed(p), b, label)))

\* safety_score.predict_safety(features)
LibPredictSafety(p) ==
    /\ Ready(p)
    /\ kind[p] = "lib"
    /\ \E b \in FeatureArrays, score \in Scores, out \in LoadOutcomes(files.reg) :
         Handled(p, Exchange(p, "predict", b, score, RegressorUsed(p),
                             LibPredictSafetyResult(out, RegressorUsed(p), b, score)))

\* safety_score.detect_anomaly(features)
LibDetectAnomaly(p) ==
    /\ Ready(p)
    /\ kind[p] = "lib"
    /\ \E b \in FeatureArrays, label \in Labels, out \in LoadOutcomes(files.anom) :
         Handled(p, Exchange(p, "detect", b, label, DetectorUsed(p),
                             LibDetectAnomalyResult(out, DetectorUsed(p), b, label)))


-----------------------------------------------------------------------------
InitWith(procs) ==
    /\ pc = [p \in procs |-> "stopped"]
    /\ kind = [p \in procs |-> "app"]
    /\ regressor = [p \in procs |-> Unbound]
    /\ anomaly_detector = [p \in procs |-> Unbound]
    /\ files \in [reg : {Absent, Dump(Fit(0))}, anom : {Absent, Dump(Fit(0))}]
    /\ cycles = 0
    /\ runs = 0
    /\ atStart = [p \in procs |-> files]
    /\ trained = [p \in procs |-> 0]
    /\ wrote = [p \in procs |-> [reg |-> 0, anom |-> 0]]
    /\ ioFailed = [p \in procs |-> FALSE]
    /\ inits = [p \in procs |-> 0]
    /\ last = NoExchange

Init == InitWith(SoloProcs)

Next ==
    \/ \E p \in Procs : StartApp(p)
    \/ \E p \in Procs : StartLib(p)
    \/ \E p \in Procs : LoadRegressor(p)
    \/ \E p \in Procs : LoadAnomalyDetector(p)
    \/ \E p \in Procs : Train(p)
    \/ \E p \in Procs : MakeDirs(p)
    \/ \E p \in Procs : DumpRegressor(p)
    \/ \E p \in Procs : DumpAnomalyDetector(p)
    \/ \E p \in Procs : Exit(p)
    \/ \E p \in Procs : PredictSafety(p)
    \/ \E p \in Procs : DetectAnomaly(p)
    \/ \E p \in Procs : LibPredictSafety(p)
    \/ \E p \in Procs : LibDetectAnomaly(p)

Spec == Init /\ [][Next]_vars

\* two processes started against the same models/ directory
InitConc == InitWith(ConcProcs)

\* the module-level code of each of them
NextConc ==
    \/ \E p \in Procs : StartApp(p)
    \/ \E p \in Procs : StartLib(p)
    \/ \E p \in Procs : LoadRegressor(p)
    \/ \E p \in Procs : LoadAnomalyDetector(p)
    \/ \E p \in Procs : Train(p)
    \/ \E p \in Procs : MakeDirs(p)
    \/ \E p \in Procs : DumpRegressor(p)
    \/ \E p \in Procs : DumpAnomalyDetector(p)

SpecConc == InitConc /\ [][NextConc]_vars

-----------------------------------------------------------------------------
(* Properties *)

Asked == last.proc # "none"
AppAsked(route) == Asked /\ last.module = "app" /\ last.route = route
Succeeded == Asked /\ ~last.resp.unhandled /\ "error" \notin DOMAIN last.resp.payload
Pair(payload, color, tip) == payload.color.v = color /\ payload.tip.v = tip

\* C1: for every score s predict_safety classifies (in either module), the
\* result is (green, Adventure Ready!) iff s >= 80, (yellow, Proceed with
\* Caution) iff 50 <= s < 80, (red, Reroute Recommended) iff s < 50; one
\* pair applies, and color and tip come from the same pair.
C1_Classification ==
    (Succeeded /\ last.route = "predict") =>
        LET s == last.out
            pl == last.resp.payload
        IN  /\ pl.score.v = s
            /\ Pair(pl, "green", "Adventure Ready!") <=> s >= 80 * Scale
            /\ Pair(pl, "yellow", "Proceed with Caution") <=> (50 * Scale <= s /\ s < 80 * Scale)
            /\ Pair(pl, "red", "Reroute Recommended") <=> s < 50 * Scale
            /\ \/ Pair(pl, "green", "Adventure Ready!")
               \/ Pair(pl, "yellow", "Proceed with Caution")
               \/ Pair(pl, "red", "Reroute Recommended")

\* a score of exactly 80 has been classified green by the service
C1_Witness ==
    /\ Succeeded /\ last.route = "predict" /\ last.module = "app"
    /\ last.out = 80 * Scale
    /\ Pair(last.resp.payload, "green", "Adventure Ready!")

\* C2: a /predict-safety request whose pipeline fails (no parsed body, body
\* no object, a key missing, a value not numeric) is answered with status
\* 500 and the fixed payload score 85, green, Adventure Ready! plus an error
\* field; nothing escapes the handler and the process keeps serving.
C2_FailOpen ==
    (AppAsked("predict") /\ ~ValidBody(last.body)) =>
        /\ ~last.resp.unhandled
        /\ last.resp.status = 500
        /\ DOMAIN last.resp.payload = {"error", "score", "color", "tip"}
        /\ last.resp.payload.score.v = 85 * Scale
        /\ Pair(last.resp.payload, "green", "Adventure Ready!")
        /\ pc[last.proc] = "serving"

\* a body without "weather" has been answered with the fail-open payload
C2_Witness ==
    /\ AppAsked("predict")
    /\ last.body = Object(Num(9), Num(5), Missing, Num(5))
    /\ last.resp.status = 500
    /\ last.resp.payload.error.v = "KeyError"

RiskUsable(b) == b.shape = "object" /\ IsNumeric(b.risk)

\* C3: a /detect-anomaly request whose pipeline fails is answered with
\* {error, anomaly: risk > 0.8} when the raw input has a usable risk, and
\* with a client error (4xx), not an unhandled server-side exception, when
\* risk is not available.
C3_AnomalyFallback ==
    (AppAsked("detect") /\ last.resp.status # 200) =>
        IF RiskUsable(last.body)
        THEN /\ ~last.resp.unhandled
             /\ DOMAIN last.resp.payload = {"error", "anomaly"}
             /\ last.resp.payload.anomaly.v = (last.body.risk.v > RiskCutTenths)
        ELSE /\ ~last.resp.unhandled
             /\ last.resp.status >= 400 /\ last.resp.status < 500

BothOk(fs) == fs.reg.st = "ok" /\ fs.anom.st = "ok"
NothingWritten == [reg |-> 0, anom |-> 0]

\* C4: once both model files have been persisted by an initialization, a
\* later initialization (of either module) trains nothing and writes
\* neither file.
C4_Idempotent ==
    \A p \in Procs :
        (BothOk(atStart[p]) /\ atStart[p].reg.id >= 1 /\ atStart[p].anom.id >= 1) =>
            (trained[p] = 0 /\ wrote[p] = NothingWritten)

RECURSIVE Sum(_, _)
Sum(f, S) == IF S = {} THEN 0 ELSE LET x == CHOOSE y \in S : TRUE IN f[x] + Sum(f, S \ {x})

\* C5: when two initializations are started while no model file exists,
\* at most one training-and-persist cycle happens: each model file is
\* written at most once.
C5_SingleFlight ==
    (\A p \in Procs : pc[p] # "stopped" /\ atStart[p] = [reg |-> Absent, anom |-> Absent]) =>
        /\ Sum([p \in Procs |-> trained[p]], Procs) <= 1
        /\ Sum([p \in Procs |-> wrote[p].reg], Procs) <= 1
        /\ Sum([p \in Procs |-> wrote[p].anom], Procs) <= 1

\* C6: no handler of the service starts before the initialization of its
\* run has completed, exactly once: at every request both the regressor
\* and the anomaly detector are bound.
C6_InitBeforeHandlers ==
    (Asked /\ last.module = "app") =>
        (last.bound /\ last.inits = 1 /\ last.used.bound)

\* a request has been served by a process that trained its models at startup
C6_Witness ==
    /\ Asked /\ last.module = "app" /\ last.bound
    /\ trained[last.proc] = 1

\* C7: a persistence failure at startup of the service, other than a model
\* file being absent (read error, makedirs error, write error), is fatal:
\* the run never completes initialization and never serves a request.
C7_FatalStartup ==
    \A p \in Procs :
        (kind[p] = "app" /\ ioFailed[p]) =>
            /\ pc[p] \in {"aborted", "stopped"}
            /\ inits[p] = 0
            /\ last.proc # p

\* the service aborted on a read error of a model file that exists
C7_Witness ==
    \E p \in Procs :
        /\ kind[p] = "app" /\ ioFailed[p] /\ pc[p] = "aborted"
        /\ atStart[p].reg.st # "absent" /\ trained[p] = 0

\* C8: requests, successful or failing, leave the in-memory regressor and
\* anomaly detector and both model files unchanged, and each is answered
\* with the artifact the initialization of the process produced; the
\* in-memory artifacts of a serving process never change.
C8_Frame ==
    [][ /\ (last' # last /\ last'.proc # "none") =>
             /\ files' = files
             /\ regressor' = regressor
             /\ anomaly_detector' = anomaly_detector
             /\ last'.used = IF last'.route = "predict"
                             THEN regressor[last'.proc]
                             ELSE anomaly_detector[last'.proc]
        /\ \A p \in Procs :
             (pc[p] = "serving" /\ pc'[p] = "serving") =>
                 (regressor'[p] = regressor[p] /\ anomaly_detector'[p] = anomaly_detector[p])
      ]_vars

\* a failing request has been answered by the library with the trained regressor
C8_Witness ==
    /\ Asked /\ last.module = "lib" /\ last.route = "predict"
    /\ last.resp.unhandled
    /\ last.used = regressor[last.proc] /\ last.used.id >= 1

\* C9: when the startup of the service completes, both files exist and the
\* in-memory models equal the persisted copies; if both files existed at
\* the start they were loaded and nothing was trained or written, and if
\* either was absent both models were trained in one cycle and both files
\* were written.
C9_Startup ==
    \A p \in Procs :
        (kind[p] = "app" /\ pc[p] = "serving") =>
            /\ BothOk(files)
            /\ regressor[p].bound /\ regressor[p].id = files.reg.id
            /\ anomaly_detector[p].bound /\ anomaly_detector[p].id = files.anom.id
            /\ IF BothOk(atStart[p])
               THEN trained[p] = 0 /\ wrote[p] = NothingWritten /\ files = atStart[p]
               ELSE /\ atStart[p].reg.st = "absent" \/ atStart[p].anom.st = "absent"
                    /\ trained[p] = 1
                    /\ wrote[p] = [reg |-> 1, anom |-> 1]
                    /\ regressor[p].id = anomaly_detector[p].id

\* the service started with only the regressor file present and retrained both
C9_Witness ==
    \E p \in Procs :
        /\ kind[p] = "app" /\ pc[p] = "serving"
        /\ atStart[p].reg.st = "ok" /\ atStart[p].anom.st = "absent"
        /\ trained[p] = 1

\* C10: for a valid feature vector, detect_anomaly (in either module)
\* answers anomaly = true iff the label is the outlier label -1, and the
\* answer carries no error field.
C10_AnomalyLabel ==
    (Asked /\ last.route = "detect" /\ ValidBody(last.body) /\ last.used.bound
       /\ last.resp.raised \notin {"FileNotFoundError", "OtherError"}) =>
        /\ ~last.resp.unhandled
        /\ DOMAIN last.resp.payload = {"anomaly"}
        /\ last.resp.payload.anomaly.v = (last.out = -1)

====
